---------------------------- MODULE Spec2Model ----------------------------
(***************************************************************************)
(* fastapy: reading, validating and writing FASTA records.                 *)
(*                                                                         *)
(* A Python str is a sequence of characters; a character is a one-letter   *)
(* TLA+ string ("A", ">", "*"), except the characters that have no         *)
(* printable spelling, which are named (LF, CR, VT, ESZETT).  Python       *)
(* values of differing types that one variable can hold (False, None, a    *)
(* str, a Sequence instance) are records tagged by their type.             *)
(***************************************************************************)
EXTENDS Integers, Sequences, FiniteSets, TLC

VARIABLES
    call,       \* the call of a pure method under test, [fn |-> ..., arguments]
    ret,        \* the value the last call returned
    header,     \* Sequence.header of the instance under test
    sequence,   \* Sequence.sequence of the instance under test
    _fasta,     \* Sequence._fasta, the cached rendering (None or a str)
    raised,     \* the exception the last operation on the instance raised
    op,         \* the last operation that ran ("pending": none yet)
    text,       \* the argument of the last fasta setter call
    linesep,    \* os.linesep of the platform the program runs on
    file,       \* content of the file FastaFile names (None: not created)
    sequences,  \* the Sequence instances handed to FastaFile.write
    records     \* the list FastaFile.read returned

vars == <<call, ret, header, sequence, _fasta, raised, op, text,
          linesep, file, sequences, records>>

---------------------------------------------------------------------------
(* Characters *)

LF == "LF"          \* '\n'
CR == "CR"          \* '\r'
VT == "VT"          \* '\x0b', one of the other str.splitlines boundaries
ESZETT == "ESZETT"  \* U+00DF, whose str.upper() is the two characters 'SS'

\* The characters str.splitlines() breaks a line at (other than the pair
\* CR LF, which is one break).  VT stands for '\x0b', '\x0c', '\x1c',
\* '\x1d', '\x1e', '\x85', U+2028 and U+2029, which all act alike.
LineBoundaries == {LF, CR, VT}

ascii_lowercase ==
    <<"a","b","c","d","e","f","g","h","i","j","k","l","m",
      "n","o","p","q","r","s","t","u","v","w","x","y","z">>

ascii_uppercase ==
    <<"A","B","C","D","E","F","G","H","I","J","K","L","M",
      "N","O","P","Q","R","S","T","U","V","W","X","Y","Z">>

---------------------------------------------------------------------------
(* Python values *)

PyNone == [type |-> "NoneType"]
PyBool(b) == [type |-> "bool", value |-> b]
PyFalse == PyBool(FALSE)
PyStr(s) == [type |-> "str", chars |-> s]

\* A Sequence instance, as Sequence.__init__ leaves it.
NewSequence(h, s) ==
    [type |-> "Sequence", header |-> h, sequence |-> s, _fasta |-> PyNone]

---------------------------------------------------------------------------
(* Python built-ins on str and list *)

Min(a, b) == IF a < b THEN a ELSE b

\* s[i:j] for 0 <= i, 0 <= j
Slice(s, i, j) == SubSeq(s, i + 1, Min(j, Len(s)))

\* list(range(start, stop, step)) for step >= 1: start, start + step, ...
\* while below stop; (stop - start + step - 1) // step numbers
PyRange(start, stop, step) ==
    IF start >= stop THEN <<>>
    ELSE [k \in 1..((stop - start + step - 1) \div step) |->
             start + (k - 1) * step]

\* join_char.join(parts).  The list is halved rather than walked, which
\* keeps the evaluation shallow on long lists.
RECURSIVE Join(_, _)
Join(join_char, parts) ==
    IF parts = <<>> THEN <<>>
    ELSE IF Len(parts) = 1 THEN Head(parts)
    ELSE LET m == Len(parts) \div 2
         IN  Join(join_char, SubSeq(parts, 1, m)) \o join_char
                 \o Join(join_char, SubSeq(parts, m + 1, Len(parts)))

\* ''.join(parts)
Concat(parts) == Join(<<>>, parts)

\* c.upper() of one character: a str of one character, or of two
UpperChar(c) ==
    IF \E i \in 1..Len(ascii_lowercase) : ascii_lowercase[i] = c
    THEN <<ascii_uppercase[CHOOSE i \in 1..Len(ascii_lowercase) :
                               ascii_lowercase[i] = c]>>
    ELSE IF c = ESZETT THEN <<"S", "S">>
    ELSE <<c>>

\* s.upper()
Upper(s) == Concat([i \in 1..Len(s) |-> UpperChar(s[i])])

\* s.translate(table), for a table that maps characters to None: the
\* characters in the table are deleted, the others kept.
Translate(s, table) == SelectSeq(s, LAMBDA c : c \notin DOMAIN table)

\* s.startswith(prefix)
StartsWith(s, prefix) ==
    Len(s) >= Len(prefix) /\ SubSeq(s, 1, Len(prefix)) = prefix

\* index (1-based) of the first character of s that lies in set, Len(s) + 1
\* when there is none
FindFirst(s, set) ==
    LET hits == {i \in 1..Len(s) : s[i] \in set}
    IN  IF hits = {} THEN Len(s) + 1
        ELSE CHOOSE i \in hits : \A j \in hits : i <= j

\* s.splitlines(): the lines of s without their terminators.  CR LF is one
\* terminator; a terminator at the end of s opens no further line.
RECURSIVE SplitLines(_)
SplitLines(s) ==
    IF s = <<>> THEN <<>>
    ELSE LET eol == FindFirst(s, LineBoundaries)
             next == IF eol > Len(s) THEN eol
                     ELSE IF s[eol] = CR /\ eol < Len(s) /\ s[eol + 1] = LF
                          THEN eol + 2
                     ELSE eol + 1
         IN  <<SubSeq(s, 1, eol - 1)>> \o SplitLines(SubSeq(s, next, Len(s)))

\* s.split(sep) for a one-character sep: always at least one piece
RECURSIVE Split(_, _)
Split(s, sep) ==
    LET at == FindFirst(s, {sep})
    IN  IF at > Len(s) THEN <<s>>
        ELSE <<SubSeq(s, 1, at - 1)>> \o Split(SubSeq(s, at + 1, Len(s)), sep)

---------------------------------------------------------------------------
(* Module constants *)

LINE_LENGTH == 80
ENTRY_DELIM_CHAR == ">"

VALID_NUCLEIC_ACIDS ==
    <<"A","C","G","T","N","U","K","S","Y","M","W","R","B","D","H","V","-">>

\* the amino-acid alphabet with 'G' left out of the literal
VALID_AMINO_ACIDS_without_G ==
    <<"A","P","B","Q","C","R","D","S","E","T","F","U","V","H","W","I",
      "Y","K","Z","L","X","M","N","*","-">>

VALID_AMINO_ACIDS ==
    <<"A","P","B","Q","C","R","D","S","E","T","F","U","G","V","H","W","I",
      "Y","K","Z","L","X","M","N","*","-">>

\* str.maketrans({ord(c): None for c in ...}): every listed character
\* is mapped to None
MakeTrans(valid) ==
    [c \in {valid[i] : i \in 1..Len(valid)} |-> PyNone]

NUCLEIC_DELCHARS == MakeTrans(VALID_NUCLEIC_ACIDS)
AA_DELCHARS == MakeTrans(VALID_AMINO_ACIDS)

---------------------------------------------------------------------------
(* class Sequence: the pure methods *)

\* split_chunks slicing one character short: string[i:i + line_length - 1]
split_chunks_short(string, line_length) ==
    LET starts == PyRange(0, Len(string), line_length)
    IN  [k \in 1..Len(starts) |->
            Slice(string, starts[k], starts[k] + line_length - 1)]

\* the pieces split_text joins: string[i:i + line_length] over the range
split_chunks(string, line_length) ==
    LET starts == PyRange(0, Len(string), line_length)
    IN  [k \in 1..Len(starts) |->
            Slice(string, starts[k], starts[k] + line_length)]

split_text(string, join_char, line_length) ==
    Join(join_char, split_chunks(string, line_length))

\* _to_fasta with the format string '{}{}': no newline after the header
_to_fasta_no_newline(h, s, join_char, line_length) ==
    (<<ENTRY_DELIM_CHAR>> \o h) \o split_text(s, join_char, line_length)

\* Sequence._to_fasta; join_char and line_length are split_text's defaults
\* (os.linesep and LINE_LENGTH in the program)
_to_fasta(h, s, join_char, line_length) ==
    (<<ENTRY_DELIM_CHAR>> \o h) \o <<LF>> \o split_text(s, join_char, line_length)

\* validate_sequence comparing with >= 0 instead of == 0
validate_sequence_ge(s, valid_chars) ==
    Len(Translate(Upper(s), valid_chars)) >= 0

\* the inner function of validate_fasta
validate_sequence(s, valid_chars) ==
    Len(Translate(Upper(s), valid_chars)) = 0

\* the condition of validate_fasta's last if
is_nucleic_or_amino(s) ==
    validate_sequence(s, NUCLEIC_DELCHARS) \/ validate_sequence(s, AA_DELCHARS)

\* validate_fasta keeping the uppercased copy as the Sequence's residues
validate_fasta_upper(entry) ==
    LET lines == SplitLines(entry)
    IN  IF Len(lines) < 2 THEN PyFalse
        ELSE IF ~StartsWith(lines[1], <<ENTRY_DELIM_CHAR>>) THEN PyFalse
        ELSE LET h == Slice(lines[1], 1, Len(lines[1]))
                 s == Upper(Concat(Tail(lines)))
             IN  IF is_nucleic_or_amino(s) THEN NewSequence(h, s)
                 ELSE PyFalse

validate_fasta(entry) ==
    LET lines == SplitLines(entry)
    IN  IF Len(lines) < 2 THEN PyFalse
        ELSE IF ~StartsWith(lines[1], <<ENTRY_DELIM_CHAR>>) THEN PyFalse
        ELSE LET h == Slice(lines[1], 1, Len(lines[1]))
                 s == Concat(Tail(lines))
             IN  IF is_nucleic_or_amino(s) THEN NewSequence(h, s)
                 ELSE PyFalse

---------------------------------------------------------------------------
(* Text-mode file I/O of open(filename, 'r') and open(filename, 'w') *)

\* what a text-mode write stores: every '\n' becomes os.linesep
WriteTranslate(s, sep) ==
    Concat([i \in 1..Len(s) |-> IF s[i] = LF THEN sep ELSE <<s[i]>>])

\* what a text-mode read returns: '\r\n' and a lone '\r' become '\n'
ReadTranslate(s) ==
    Concat([i \in 1..Len(s) |->
               IF s[i] # CR THEN <<s[i]>>
               ELSE IF i < Len(s) /\ s[i + 1] = LF THEN <<>>
               ELSE <<LF>>])

---------------------------------------------------------------------------
(* Bounds and input sets *)

MaxTextLen == 5      \* length of the texts handed to validate_fasta
MaxSymbols == 2      \* length of the strings handed to the alphabet test
MaxSplitLen == 5     \* length of the short strings handed to split_text
MaxWidth == 3        \* the small line widths tried besides LINE_LENGTH
MaxHeaderLen == 2    \* length of the headers of rendered Sequences
MaxResidueLen == 3   \* length of the short residues of rendered Sequences
MaxRecords == 2      \* number of Sequences written to one file

StrsUpTo(S, n) == UNION {[1..k -> S] : k \in 0..n}

\* residue strings long enough for LINE_LENGTH to wrap them
LongString(n) ==
    [i \in 1..n |-> VALID_NUCLEIC_ACIDS[((i - 1) % Len(VALID_NUCLEIC_ACIDS)) + 1]]

LongStrings ==
    {LongString(n) : n \in {LINE_LENGTH - 1, LINE_LENGTH, LINE_LENGTH + 1,
                            LINE_LENGTH + 5, 2 * LINE_LENGTH + 1}}

Platforms == {<<LF>>, <<CR, LF>>}   \* os.linesep: POSIX, Windows

Widths == (1..MaxWidth) \cup {LINE_LENGTH}

Chars(s) == {s[i] : i \in 1..Len(s)}

TextChars == {ENTRY_DELIM_CHAR, "A", "c", "E", "J", ESZETT, LF, CR}
Texts == StrsUpTo(TextChars, MaxTextLen)

SymbolChars ==
    Chars(VALID_NUCLEIC_ACIDS) \cup Chars(VALID_AMINO_ACIDS)
        \cup {"a", "e", "j", "J", "O", ESZETT, ENTRY_DELIM_CHAR, LF}
SymbolStrings == StrsUpTo(SymbolChars, MaxSymbols)

SplitStrings == StrsUpTo({"A", "c"}, MaxSplitLen)

HeaderChars == {"h", ENTRY_DELIM_CHAR, LF, CR, VT}
Headers == StrsUpTo(HeaderChars, MaxHeaderLen)
Residues == StrsUpTo({"c", "J"}, MaxResidueLen)

AlphabetCalls == {[fn |-> "is_nucleic_or_amino", s |-> s] : s \in SymbolStrings}

\* the texts of test_validate_fasta and test_invalid_headers, as
\* _build_fasta assembles them on either platform
valid_header == <<ENTRY_DELIM_CHAR, " ", "I", " ", "a", "m", " ",
                  "v", "a", "l", "i", "d", "!">>
invalid_header == <<"i", "n", "v", "a", "l", "i", "d">>

TestTexts ==
    {h \o j \o r :
        h \in {valid_header, invalid_header},
        j \in Platforms,
        r \in {VALID_NUCLEIC_ACIDS, VALID_AMINO_ACIDS,
                VALID_NUCLEIC_ACIDS \o <<"J">>, VALID_AMINO_ACIDS \o <<"J">>}}

ParseCalls ==
    {[fn |-> "validate_fasta", entry |-> t] : t \in Texts \cup TestTexts}

\* short strings at every width; the long ones at the program's width
WrapCalls ==
    {[fn |-> "split_text", string |-> s, join_char |-> j, line_length |-> w] :
        s \in SplitStrings, j \in Platforms, w \in Widths}
    \cup
    {[fn |-> "split_text", string |-> s, join_char |-> j,
      line_length |-> LINE_LENGTH] : s \in LongStrings, j \in Platforms}

RenderCalls ==
    {[fn |-> "_to_fasta", header |-> h, sequence |-> s,
      join_char |-> j, line_length |-> w] :
        h \in Headers, s \in Residues, j \in Platforms, w \in Widths}
    \cup
    {[fn |-> "_to_fasta", header |-> h, sequence |-> s,
      join_char |-> j, line_length |-> LINE_LENGTH] :
        h \in Headers, s \in LongStrings, j \in Platforms}

---------------------------------------------------------------------------
(* The pure methods, applied to one call each *)

NoInstance ==
    /\ header = <<>> /\ sequence = <<>> /\ _fasta = PyNone
    /\ raised = "none" /\ text = <<>>

NoFile == file = PyNone /\ sequences = <<>> /\ records = <<>>

InitCall(calls) ==
    /\ call \in calls /\ ret = PyNone /\ op = "pending"
    /\ linesep = <<LF>> /\ NoInstance /\ NoFile

Returns(fn, value) ==
    /\ op = "pending" /\ call.fn = fn
    /\ ret' = value /\ op' = fn
    /\ UNCHANGED <<call, header, sequence, _fasta, raised, text, linesep,
                   file, sequences, records>>

Call_is_nucleic_or_amino ==
    Returns("is_nucleic_or_amino", PyBool(is_nucleic_or_amino(call.s)))

Call_validate_fasta ==
    Returns("validate_fasta", validate_fasta(call.entry))

Call_split_text ==
    Returns("split_text",
            PyStr(split_text(call.string, call.join_char, call.line_length)))

Call_to_fasta ==
    Returns("_to_fasta",
            PyStr(_to_fasta(call.header, call.sequence,
                            call.join_char, call.line_length)))

\* validate_fasta applied to the text _to_fasta returned
Reparse ==
    /\ op = "_to_fasta"
    /\ ret' = validate_fasta(ret.chars) /\ op' = "validate_fasta"
    /\ UNCHANGED <<call, header, sequence, _fasta, raised, text, linesep,
                   file, sequences, records>>

SpecAlphabet ==
    InitCall(AlphabetCalls) /\ [][Call_is_nucleic_or_amino]_vars

SpecParse == InitCall(ParseCalls) /\ [][Call_validate_fasta]_vars

SpecWrap == InitCall(WrapCalls) /\ [][Call_split_text]_vars

NextRoundTrip == Call_to_fasta \/ Reparse

SpecRoundTrip == InitCall(RenderCalls) /\ [][NextRoundTrip]_vars

---------------------------------------------------------------------------
(* A Sequence instance: construction, the fasta property, attribute       *)
(* assignment                                                              *)

\* the names an attribute lookup on a Sequence instance resolves: the
\* instance attributes __init__ sets and the names the class body binds
SequenceAttributes ==
    {"header", "sequence", "_fasta",
     "__init__", "fasta", "_to_fasta", "split_text", "validate_fasta",
     "__repr__"}

\* the fasta property's getter on instance o: o afterwards (the value the
\* getter returns is its _fasta)
fasta_get(o, sep) ==
    IF o._fasta = PyNone
    THEN [o EXCEPT !._fasta =
              PyStr(_to_fasta(o.header, o.sequence, sep, LINE_LENGTH))]
    ELSE o

InstanceHeaders == StrsUpTo({"h", "g"}, 1)
InstanceResidues == {<<>>, <<"A">>, <<"A", "c">>}

\* the texts assigned to the fasta property: accepted by validate_fasta
\* (the first three) and rejected by it
SetterTexts ==
    {<<ENTRY_DELIM_CHAR, "g", LF, "A", "c">>,
     <<ENTRY_DELIM_CHAR, "h", LF, "A">>,
     <<ENTRY_DELIM_CHAR, "h", CR, LF, "E", LF, "c">>,
     <<ENTRY_DELIM_CHAR, "h", LF, "J">>,
     <<"h", LF, "A">>,
     <<ENTRY_DELIM_CHAR, "h">>,
     <<>>}

Self == [type |-> "Sequence", header |-> header, sequence |-> sequence,
         _fasta |-> _fasta]

Init ==
    /\ header \in InstanceHeaders /\ sequence \in InstanceResidues
    /\ _fasta = PyNone
    /\ raised = "none" /\ op = "__init__" /\ text = <<>> /\ ret = PyNone
    /\ linesep \in Platforms
    /\ call = [fn |-> "none"] /\ NoFile

\* value = instance.fasta
fasta_getter ==
    /\ _fasta' = fasta_get(Self, linesep)._fasta
    /\ ret' = _fasta'
    /\ raised' = "none" /\ op' = "fasta.getter"
    /\ UNCHANGED <<header, sequence, text, call, linesep,
                   file, sequences, records>>

\* instance.fasta = fasta_sequence.  The setter's first statement looks
\* up self.validate, a name no Sequence has, and the lookup raises; the
\* statements after it run only were the name bound to the validator.
fasta_setter(fasta_sequence) ==
    /\ op' = "fasta.setter" /\ text' = fasta_sequence /\ ret' = PyNone
    /\ IF "validate" \notin SequenceAttributes
       THEN /\ raised' = "AttributeError"
            /\ UNCHANGED <<header, sequence, _fasta>>
       ELSE LET parsed == validate_fasta(fasta_sequence)
            IN  IF parsed = PyFalse
                THEN /\ raised' = "InvalidFastaSequenceException"
                     /\ UNCHANGED <<header, sequence, _fasta>>
                ELSE /\ raised' = "none"
                     /\ header' = parsed.header
                     /\ sequence' = parsed.sequence
                     /\ UNCHANGED _fasta
    /\ UNCHANGED <<call, linesep, file, sequences, records>>

\* instance.header = h: a plain attribute, so nothing else changes
set_header(h) ==
    /\ header' = h
    /\ raised' = "none" /\ op' = "header =" /\ ret' = PyNone
    /\ UNCHANGED <<sequence, _fasta, text, call, linesep,
                   file, sequences, records>>

\* instance.sequence = s: a plain attribute, so nothing else changes
set_sequence(s) ==
    /\ sequence' = s
    /\ raised' = "none" /\ op' = "sequence =" /\ ret' = PyNone
    /\ UNCHANGED <<header, _fasta, text, call, linesep,
                   file, sequences, records>>

Next ==
    \/ fasta_getter
    \/ \E t \in SetterTexts : fasta_setter(t)
    \/ \E h \in InstanceHeaders : set_header(h)
    \/ \E s \in InstanceResidues : set_sequence(s)

Spec == Init /\ [][Next]_vars

---------------------------------------------------------------------------
(* class FastaFile *)

PyList(items) == [type |-> "list", items |-> items]

FileHeaders == StrsUpTo({"h", ENTRY_DELIM_CHAR}, MaxHeaderLen)
FileResidues == {<<"A", "C", "D">>, <<"c">>, <<"J">>, <<>>}
FileSequences ==
    {NewSequence(h, s) : h \in FileHeaders, s \in FileResidues}

\* what write is handed: one Sequence, or a list of Sequences
WriteArguments ==
    FileSequences
        \cup {PyList(l) : l \in UNION {[1..n -> FileSequences] : n \in 0..MaxRecords}}

\* write's first statement: a single instance becomes a list of one
AsList(arg) == IF arg.type = "Sequence" THEN <<arg>> ELSE arg.items

InitFile ==
    /\ sequences \in WriteArguments
    /\ file = PyNone /\ records = <<>>
    /\ op = "pending" /\ raised = "none"
    /\ linesep \in Platforms
    /\ call = [fn |-> "none"] /\ ret = PyNone
    /\ header = <<>> /\ sequence = <<>> /\ _fasta = PyNone /\ text = <<>>

\* FastaFile.write(sequences): reading seq.fasta fills each instance's
\* cache; the file holds each rendering followed by '\n'
write ==
    LET list == AsList(sequences)
        filled == [i \in 1..Len(list) |-> fasta_get(list[i], linesep)]
        lines == [i \in 1..Len(list) |-> filled[i]._fasta.chars \o <<LF>>]
    IN  /\ file' = PyStr(WriteTranslate(Concat(lines), linesep))
        /\ sequences' = IF sequences.type = "Sequence" THEN filled[1]
                        ELSE PyList(filled)
        /\ op' = "write" /\ raised' = "none"
        /\ UNCHANGED <<records, call, ret, header, sequence, _fasta, text,
                       linesep>>

\* FastaFile.read(): open() raises when the file does not exist
read ==
    /\ op' = "read"
    /\ IF file = PyNone
       THEN raised' = "FileNotFoundError" /\ UNCHANGED records
       ELSE LET data == Split(ReadTranslate(file.chars), ENTRY_DELIM_CHAR)
                raw == SelectSeq(data, LAMBDA f : f # <<>>)
            IN  /\ records' = [i \in 1..Len(raw) |->
                                  validate_fasta(<<ENTRY_DELIM_CHAR>> \o raw[i])]
                /\ raised' = "none"
    /\ UNCHANGED <<file, sequences, call, ret, header, sequence, _fasta,
                   text, linesep>>

NextFile == write \/ read

SpecFile == InitFile /\ [][NextFile]_vars

---------------------------------------------------------------------------
(* Properties *)

\* every character of s, uppercased, belongs to the alphabet
InAlphabet(s, alphabet) ==
    \A i \in 1..Len(s) : Chars(UpperChar(s[i])) \subseteq Chars(alphabet)

\* character c lies outside both alphabets, whatever its case
OutsideBoth(c) ==
    /\ ~(Chars(UpperChar(c)) \subseteq Chars(VALID_NUCLEIC_ACIDS))
    /\ ~(Chars(UpperChar(c)) \subseteq Chars(VALID_AMINO_ACIDS))

Accepted(s) ==
    InAlphabet(s, VALID_NUCLEIC_ACIDS) \/ InAlphabet(s, VALID_AMINO_ACIDS)

\* The reference decision of parse, read off the text by position: where
\* the header line ends, how long its terminator is, what follows it.
RefEol(t) == FindFirst(t, LineBoundaries)
RefRest(t) ==
    LET eol == RefEol(t)
        term == IF eol < Len(t) /\ t[eol] = CR /\ t[eol + 1] = LF THEN 2 ELSE 1
    IN  SubSeq(t, eol + term, Len(t))
RefHeader(t) == SubSeq(t, 2, RefEol(t) - 1)
RefResidues(t) == SelectSeq(RefRest(t), LAMBDA c : c \notin LineBoundaries)
RefIsRecord(t) ==
    /\ RefEol(t) <= Len(t) /\ RefRest(t) # <<>>     \* at least 2 lines
    /\ t[1] = ENTRY_DELIM_CHAR                       \* line 0 begins with '>'
    /\ Accepted(RefResidues(t))

\* C1 as stated: for every Sequence whose residues pass the alphabet test
\* (the empty string included) and every width, validate_fasta applied to
\* the text _to_fasta built returns a Sequence with the same header and
\* residues.
C1_RoundTripAsStated ==
    (op = "validate_fasta" /\ Accepted(call.sequence))
        => /\ ret.type = "Sequence"
           /\ ret.header = call.header
           /\ ret.sequence = call.sequence

\* C1, amended: the round trip holds for every Sequence whose residues are
\* non-empty and pass the alphabet test and whose header holds no line
\* boundary character, at every width >= 1 and either line separator.
C1_RoundTrip ==
    (/\ op = "validate_fasta"
     /\ Accepted(call.sequence) /\ call.sequence # <<>>
     /\ Chars(call.header) \cap LineBoundaries = {})
        => /\ ret.type = "Sequence"
           /\ ret.header = call.header
           /\ ret.sequence = call.sequence

\* a wrapped rendering (two chunks or more, joined by CR LF) of a Sequence
\* whose header holds the entry delimiter has been parsed back
C1_Witness ==
    /\ op = "validate_fasta"
    /\ Accepted(call.sequence)
    /\ Chars(call.header) \cap LineBoundaries = {}
    /\ ENTRY_DELIM_CHAR \in Chars(call.header)
    /\ Len(call.sequence) > call.line_length
    /\ call.join_char = <<CR, LF>>
    /\ ret.type = "Sequence" /\ ret.sequence = call.sequence

C4_AssignValid ==
    (op = "fasta.setter" /\ validate_fasta(text) # PyFalse)
        => /\ raised = "none"
           /\ header = validate_fasta(text).header
           /\ sequence = validate_fasta(text).sequence

\* C5: a run of the fasta setter on a text validate_fasta rejects raises
\* InvalidFastaSequenceException and nothing else, and leaves header and
\* residues as they were.
C5_AssignInvalid ==
    [][(op' = "fasta.setter" /\ validate_fasta(text') = PyFalse)
          => /\ raised' = "InvalidFastaSequenceException"
             /\ header' = header
             /\ sequence' = sequence]_vars

\* C6: the cached rendering is absent or is the rendering of the current
\* header and residues, and what the getter returned is that rendering.
C6_CacheCoherence ==
    LET current == PyStr(_to_fasta(header, sequence, linesep, LINE_LENGTH))
    IN  /\ _fasta \in {PyNone, current}
        /\ op = "fasta.getter" => ret = current

\* C7: the wrapped body split_text returns is ceil(len(s) / w) lines, each
\* of w characters but the last, which has 1 to w; the lines joined give s
\* back; an empty s gives no line; 85 characters at width 80 give lines of
\* 80 and 5.
C7_WrapCorrectness ==
    op = "split_text"
        => LET s == call.string
               w == call.line_length
               lines == SplitLines(ret.chars)
               n == Len(lines)
           IN  /\ n = (Len(s) + w - 1) \div w
               /\ \A k \in 1..(n - 1) : Len(lines[k]) = w
               /\ n > 0 => (1 <= Len(lines[n]) /\ Len(lines[n]) <= w)
               /\ Concat(lines) = s
               /\ s = <<>> => n = 0
               /\ (Len(s) = LINE_LENGTH + 5 /\ w = LINE_LENGTH)
                    => [k \in 1..n |-> Len(lines[k])] = <<LINE_LENGTH, 5>>

\* 85 characters were wrapped at width 80 into lines of 80 and 5
C7_Witness ==
    /\ op = "split_text"
    /\ Len(call.string) = LINE_LENGTH + 5 /\ call.line_length = LINE_LENGTH
    /\ LET lines == SplitLines(ret.chars)
       IN  Len(lines) = 2 /\ Len(lines[1]) = LINE_LENGTH /\ Len(lines[2]) = 5

\* whether validate_fasta accepts the rendering of instance o as o
ParseAccepts(o) ==
    validate_fasta(_to_fasta(o.header, o.sequence, linesep, LINE_LENGTH))
        = NewSequence(o.header, o.sequence)

\* C8: read of a file write produced from N >= 1 Sequences that
\* validate_fasta accepts returns exactly those N records, in order.
C8_ReadReturnsRecords ==
    LET list == AsList(sequences)
    IN  (/\ op = "read" /\ raised = "none"
         /\ Len(list) >= 1
         /\ \A i \in 1..Len(list) : ParseAccepts(list[i]))
            => records = [i \in 1..Len(list) |->
                             NewSequence(list[i].header, list[i].sequence)]

\* C9: every Sequence validate_fasta returns has non-empty residues.
C9_ResiduesNonEmpty ==
    (op = "validate_fasta" /\ ret.type = "Sequence") => ret.sequence # <<>>

\* C10: the nucleic-acid alphabet lies within the amino-acid alphabet, the
\* two-way test equals the amino-acid test alone, and a string of symbols
\* of the two alphabets is never rejected.
C10_NucleicWithinAmino ==
    /\ Chars(VALID_NUCLEIC_ACIDS) \subseteq Chars(VALID_AMINO_ACIDS)
    /\ op = "is_nucleic_or_amino"
        => /\ ret = PyBool(validate_sequence(call.s, AA_DELCHARS))
           /\ Chars(call.s) \subseteq
                  Chars(VALID_NUCLEIC_ACIDS) \cup Chars(VALID_AMINO_ACIDS)
                => ret = PyBool(TRUE)

\* a string mixing a nucleic-acid symbol with an amino-acid-only symbol was
\* accepted
C10_Witness ==
    /\ op = "is_nucleic_or_amino"
    /\ \E i, j \in 1..Len(call.s) :
          /\ call.s[i] \in Chars(VALID_NUCLEIC_ACIDS)
          /\ call.s[j] \in Chars(VALID_AMINO_ACIDS) \ Chars(VALID_NUCLEIC_ACIDS)
    /\ ret = PyBool(TRUE)

===========================================================================
